---- MODULE Spec2Model ----
(***************************************************************************)
(* A model of cherry (github.com/pooulad/cherry):                          *)
(*   - the graceful server: server.serve, server.closeNotify and the       *)
(*     ConnState hook that counts live connections in a sync.WaitGroup;    *)
(*   - the router/middleware facade: Cherry.Use, Cherry.Group, Group.Reset,*)
(*     Cherry.add and the dispatch closure of makeHttpRouterHandle.        *)
(* Go slices are modelled as headers (ptr, len, cap) over a heap of        *)
(* backing arrays, and append as the gc runtime's growslice computes it.   *)
(***************************************************************************)
EXTENDS Integers, Sequences, FiniteSets, TLC

\* ------------------------------------------------------------------ bounds
MaxConns == 2
\* handlers passed to Use in total, applications and groups in total, Reset
\* calls in total, requests in flight at once
MaxHandlers == 3
MaxApps == 2
MaxResets == 1
MaxInFlight == 1
\* the same, for the deeper search of DeepSpec (groups of groups, slices with
\* spare capacity)
DeepHandlers == 5
DeepApps == 3
DeepResets == 1
DeepInFlight == 1
\* the same, for CtxSpec (one application whose requests attach values to their
\* contexts)
CtxHandlers == 1
CtxInFlight == 2
\* the same, for RouteSpec (prefixes and routes of groups of groups)
RouteApps == 3
RouteInFlight == 1
\* routes registered in total in RouteSpec
RouteRoutes == 2
\* the same, for BindSpec (BindContext and SetErrorHandler on groups and siblings)
BindApps == 3
BindInFlight == 1
\* the same, for RawSpec (http.Handlers registered with Handle)
RawHandlers == 1
RawApps == 2
RawInFlight == 1
\* the same, for LateSpec (Use after the route was registered)
LateHandlers == 3
LateApps == 2
LateInFlight == 1
\* calls a request's chain makes on its response writer
MaxWrites == 2

\* ------------------------------------------------------- program constants
useClosedConn == "use of closed network connection"

SIGTERM == "SIGTERM"
SIGQUIT == "SIGQUIT"
SIGUSR2 == "SIGUSR2"
SIGINT == "SIGINT"
SIGKILL == "SIGKILL"

\* The signals a process can be sent that the source names.
Signals == {SIGTERM, SIGQUIT, SIGUSR2, SIGINT, SIGKILL}

\* The signals closeNotify's switch answers with a graceful stop.
GracefulSignals == {SIGTERM, SIGQUIT, SIGINT}

\* The signals closeNotify subscribes to with signal.Notify.
NotifySignals == {SIGTERM, SIGQUIT, SIGUSR2, SIGINT}

\* Errors Server.Serve can end with: the listener was closed under Accept, or
\* Accept failed for another reason.
ErrAcceptClosed == [op |-> "accept tcp", msg |-> useClosedConn]
ErrAcceptOther == [op |-> "accept tcp", msg |-> "too many open files"]

\* The errors serve makes itself, and its result while it has not returned.
ErrGraceful == [op |-> "", msg |-> "server stopped gracefully"]
ErrKilled == [op |-> "", msg |-> "server stopped: process killed"]
NotReturned == [op |-> "", msg |-> ""]

Conns == 1..MaxConns

VARIABLES
  \* ---- server
  proc,       \* the process: "running", "panicked" (closeNotify's panic), "exited" (the runtime's default signal action), "oskilled" (SIGKILL)
  delivered,  \* the signals sent to the process so far, each with whether sig was subscribed by then
  notified,   \* signal.Notify has registered the channel sig
  sig,        \* closeNotify's channel sig (capacity 1)
  sign,       \* closeNotify's local sign ("" before the receive)
  notifyPc,   \* closeNotify's position
  lClosed,    \* closeNotify called l.Close()
  quit,       \* server.quit (capacity 1)
  fquit,      \* server.fquit (capacity 1)
  errChan,    \* serve's errChan (capacity 1)
  acceptPc,   \* the Server.Serve goroutine's position
  accepted,   \* the connection Accept returned whose StateNew hook has not run yet (0: none)
  conn,       \* every connection's http.ConnState ("none": not accepted yet)
  wg,         \* server.wg's counter
  keepAlive,  \* keep-alives enabled on the http.Server
  servePc,    \* serve's position
  result,     \* the error serve returned (NotReturned while it has not)
  \* ---- facade (Cherry, Group)
  app,        \* the Cherry structs: app[1] is the one New returned, the others are the Cherry embedded in each Group
  heap,       \* the backing arrays of the middleware slices that are still referenced, by address
  hist,       \* per Cherry, what was called on it: its parent, the list it was created with, the handlers passed to its Use (since its last Reset, and ever), its Resets, the prefix its Group call was given, the context bound to it
  routes,     \* the router's table: the handles registered with Cherry.add
  reqs,       \* the requests being dispatched
  \* ---- one request's response (Cherry.ServeHTTP, responseLogger, Context's helpers)
  call,       \* the request ServeHTTP is serving: its position, how the router matched it, its method, the error its chain returned, the last helper it called
  rw,         \* the http.ResponseWriter the server passed to ServeHTTP
  logger,     \* the responseLogger wrapped around rw (on: whether ServeHTTP made one)
  out         \* the lines written to c.Output by writeLog

appVars == <<app, heap, hist, routes, reqs>>

rspVars == <<call, rw, logger, out>>

srvVars == <<proc, delivered, notified, sig, sign, notifyPc, lClosed, quit, fquit,
             errChan, acceptPc, accepted, conn, wg, keepAlive, servePc, result>>

vars == <<srvVars, appVars, rspVars>>

\* =====================================================================
\* server (server.serve, server.closeNotify)
\* =====================================================================

\* Cherry.serve builds the server: both stop channels empty, nothing running.
InitServer ==
  /\ proc = "running"
  /\ delivered = {}
  /\ notified = FALSE
  /\ sig = <<>>
  /\ sign = ""
  /\ notifyPc = "idle"
  /\ lClosed = FALSE
  /\ quit = <<>>
  /\ fquit = <<>>
  /\ errChan = <<>>
  /\ acceptPc = "idle"
  /\ accepted = 0
  /\ conn = [c \in Conns |-> "none"]
  /\ wg = 0
  /\ keepAlive = TRUE
  /\ servePc = "start"
  /\ result = NotReturned

\* strings.Contains(err.Error(), useClosedConn)
ContainsClosedConnNever(err) == FALSE

ContainsClosedConnAlways(err) == TRUE

ContainsClosedConn(err) == err.msg = useClosedConn

\* The ConnState hook serve installs: the WaitGroup counter after the hook ran
\* for a connection entering `state`.
ConnStateNoHijack(w, state) ==
  CASE state = "new" -> w + 1
    [] state = "closed" -> w - 1
    [] OTHER -> w

ConnState(w, state) ==
  CASE state = "new" -> w + 1
    [] state \in {"closed", "hijacked"} -> w - 1
    [] OTHER -> w

\* The branch closeNotify's switch takes for a received signal.
closeNotifySwitchReloadAsQuit(s) ==
  CASE s \in {SIGTERM, SIGQUIT, SIGINT, SIGUSR2} -> "quit"
    [] s = SIGKILL -> "fquit"
    [] OTHER -> "none"

closeNotifySwitch(s) ==
  CASE s \in {SIGTERM, SIGQUIT, SIGINT} -> "quit"
    [] s = SIGKILL -> "fquit"
    [] s = SIGUSR2 -> "panic"
    [] OTHER -> "none"

\* serve, up to its select loop: installs the hook, starts closeNotify and the
\* goroutine that runs Server.Serve.
ServeStart ==
  /\ proc = "running"
  /\ servePc = "start"
  /\ servePc' = "select"
  /\ notifyPc' = "notify"
  /\ acceptPc' = "accept"
  /\ UNCHANGED <<proc, delivered, notified, sig, sign, lClosed, quit, fquit, errChan,
                 accepted, conn, wg, keepAlive, result>>
  /\ UNCHANGED <<appVars, rspVars>>

\* closeNotify: make(chan os.Signal, 1) and signal.Notify.
CloseNotifyNotify ==
  /\ proc = "running"
  /\ notifyPc = "notify"
  /\ notified' = TRUE
  /\ notifyPc' = "recv"
  /\ UNCHANGED <<proc, delivered, sig, sign, lClosed, quit, fquit, errChan, acceptPc,
                 accepted, conn, wg, keepAlive, servePc, result>>
  /\ UNCHANGED <<appVars, rspVars>>

\* A signal is sent to the process. SIGKILL cannot be caught: the kernel ends the
\* process. A subscribed signal is queued on sig unless sig is full (the signal
\* package never blocks). Before signal.Notify the runtime's default applies:
\* SIGTERM, SIGQUIT and SIGINT end the process, SIGUSR2 is ignored.
SendSignal(s) ==
  /\ proc = "running"
  /\ delivered' = delivered \cup {<<s, notified>>}
  /\ IF s \notin NotifySignals
       THEN /\ proc' = "oskilled"
            /\ sig' = sig
       ELSE IF ~notified
         THEN /\ proc' = (IF s = SIGUSR2 THEN proc ELSE "exited")
              /\ sig' = sig
         ELSE /\ proc' = proc
              /\ sig' = (IF Len(sig) < 1 THEN Append(sig, s) ELSE sig)
  /\ UNCHANGED <<notified, sign, notifyPc, lClosed, quit, fquit, errChan, acceptPc,
                 accepted, conn, wg, keepAlive, servePc, result>>
  /\ UNCHANGED <<appVars, rspVars>>

\* closeNotify: sign := <-sig
CloseNotifyRecv ==
  /\ proc = "running"
  /\ notifyPc = "recv"
  /\ sig # <<>>
  /\ sign' = Head(sig)
  /\ sig' = Tail(sig)
  /\ notifyPc' = "switch"
  /\ UNCHANGED <<proc, delivered, notified, lClosed, quit, fquit, errChan, acceptPc,
                 accepted, conn, wg, keepAlive, servePc, result>>
  /\ UNCHANGED <<appVars, rspVars>>

\* closeNotify: the switch, up to l.Close() or the panic.
CloseNotifySwitchNoClose ==
  /\ proc = "running"
  /\ notifyPc = "switch"
  /\ LET b == closeNotifySwitch(sign) IN
       /\ proc' = (IF b = "panic" THEN "panicked" ELSE proc)
       /\ notifyPc' = (CASE b \in {"quit", "fquit"} -> "send"
                         [] b = "panic" -> "panicked"
                         [] OTHER -> "done")
  /\ UNCHANGED <<delivered, notified, sig, sign, lClosed, quit, fquit, errChan, acceptPc,
                 accepted, conn, wg, keepAlive, servePc, result>>
  /\ UNCHANGED <<appVars, rspVars>>

CloseNotifySwitch ==
  /\ proc = "running"
  /\ notifyPc = "switch"
  /\ LET b == closeNotifySwitch(sign) IN
       /\ lClosed' = (IF b \in {"quit", "fquit"} THEN TRUE ELSE lClosed)
       /\ proc' = (IF b = "panic" THEN "panicked" ELSE proc)
       /\ notifyPc' = (CASE b \in {"quit", "fquit"} -> "send"
                         [] b = "panic" -> "panicked"
                         [] OTHER -> "done")
  /\ UNCHANGED <<delivered, notified, sig, sign, quit, fquit, errChan, acceptPc,
                 accepted, conn, wg, keepAlive, servePc, result>>
  /\ UNCHANGED <<appVars, rspVars>>

\* closeNotify: s.quit <- struct{}{} or s.fquit <- struct{}{} (each of capacity 1).
CloseNotifySendBoth ==
  /\ proc = "running"
  /\ notifyPc = "send"
  /\ Len(fquit) < 1 /\ Len(quit) < 1
  /\ fquit' = Append(fquit, sign)
  /\ quit' = Append(quit, sign)
  /\ notifyPc' = "done"
  /\ UNCHANGED <<proc, delivered, notified, sig, sign, lClosed, errChan, acceptPc,
                 accepted, conn, wg, keepAlive, servePc, result>>
  /\ UNCHANGED <<appVars, rspVars>>

CloseNotifySendAndAgain ==
  /\ proc = "running"
  /\ notifyPc = "send"
  /\ IF closeNotifySwitch(sign) = "fquit"
       THEN /\ Len(fquit) < 1
            /\ fquit' = Append(fquit, sign)
            /\ quit' = quit
       ELSE /\ Len(quit) < 1
            /\ quit' = Append(quit, sign)
            /\ fquit' = fquit
  /\ notifyPc' = "recv"
  /\ UNCHANGED <<proc, delivered, notified, sig, sign, lClosed, errChan, acceptPc,
                 accepted, conn, wg, keepAlive, servePc, result>>
  /\ UNCHANGED <<appVars, rspVars>>

CloseNotifySend ==
  /\ proc = "running"
  /\ notifyPc = "send"
  /\ IF closeNotifySwitch(sign) = "fquit"
       THEN /\ Len(fquit) < 1
            /\ fquit' = Append(fquit, sign)
            /\ quit' = quit
       ELSE /\ Len(quit) < 1
            /\ quit' = Append(quit, sign)
            /\ fquit' = fquit
  /\ notifyPc' = "done"
  /\ UNCHANGED <<proc, delivered, notified, sig, sign, lClosed, errChan, acceptPc,
                 accepted, conn, wg, keepAlive, servePc, result>>
  /\ UNCHANGED <<appVars, rspVars>>

\* Server.Serve: l.Accept() returns a connection.
Accept(c) ==
  /\ proc = "running"
  /\ acceptPc = "accept"
  /\ ~lClosed
  /\ conn[c] = "none"
  /\ accepted' = c
  /\ acceptPc' = "hook"
  /\ UNCHANGED <<proc, delivered, notified, sig, sign, notifyPc, lClosed, quit, fquit,
                 errChan, conn, wg, keepAlive, servePc, result>>
  /\ UNCHANGED <<appVars, rspVars>>

\* Server.Serve: l.Accept() fails (the listener was closed, or another error);
\* Serve returns the error and the goroutine sends it on errChan.
AcceptError ==
  /\ proc = "running"
  /\ acceptPc = "accept"
  /\ \E err \in {ErrAcceptClosed, ErrAcceptOther} :
       /\ (err = ErrAcceptClosed) <=> lClosed
       /\ errChan' = Append(errChan, err)
  /\ acceptPc' = "exited"
  /\ UNCHANGED <<proc, delivered, notified, sig, sign, notifyPc, lClosed, quit, fquit,
                 accepted, conn, wg, keepAlive, servePc, result>>
  /\ UNCHANGED <<appVars, rspVars>>

\* Server.Serve: the hook for StateNew of the accepted connection, then
\* `go c.serve()` and back to Accept.
HookNew ==
  /\ proc = "running"
  /\ acceptPc = "hook"
  /\ conn' = [conn EXCEPT ![accepted] = "new"]
  /\ wg' = ConnState(wg, "new")
  /\ accepted' = 0
  /\ acceptPc' = "accept"
  /\ UNCHANGED <<proc, delivered, notified, sig, sign, notifyPc, lClosed, quit, fquit,
                 errChan, keepAlive, servePc, result>>
  /\ UNCHANGED <<appVars, rspVars>>

\* The transitions net/http reports for a served connection.
ConnNext(from) ==
  CASE from = "new" -> {"active", "closed"}
    [] from = "active" -> {"closed", "hijacked"} \cup (IF keepAlive THEN {"idle"} ELSE {})
    [] from = "idle" -> {"active", "closed"}
    [] OTHER -> {}

\* A connection's goroutine reports a state change: the hook runs. A negative
\* WaitGroup counter panics.
ConnTransition(c) ==
  /\ proc = "running"
  /\ \E to \in ConnNext(conn[c]) :
       /\ conn' = [conn EXCEPT ![c] = to]
       /\ wg' = ConnState(wg, to)
       /\ proc' = (IF ConnState(wg, to) < 0 THEN "panicked" ELSE proc)
  /\ UNCHANGED <<delivered, notified, sig, sign, notifyPc, lClosed, quit, fquit,
                 errChan, acceptPc, accepted, keepAlive, servePc, result>>
  /\ UNCHANGED <<appVars, rspVars>>

\* serve: one round of the select over errChan, s.quit and s.fquit; a ready case
\* is chosen. The quit case runs up to wg.Wait().
ServeSelect ==
  /\ proc = "running"
  /\ servePc = "select"
  /\ \E ch \in {"errChan", "quit", "fquit"} :
       /\ (CASE ch = "errChan" -> errChan # <<>>
             [] ch = "quit" -> quit # <<>>
             [] OTHER -> fquit # <<>>)
       /\ errChan' = (IF ch = "errChan" THEN Tail(errChan) ELSE errChan)
       /\ quit' = (IF ch = "quit" THEN Tail(quit) ELSE quit)
       /\ fquit' = (IF ch = "fquit" THEN Tail(fquit) ELSE fquit)
       /\ keepAlive' = (IF ch = "quit" THEN FALSE ELSE keepAlive)
       /\ servePc' = (CASE ch = "errChan" ->
                             (IF ContainsClosedConn(Head(errChan)) THEN "select" ELSE "returned")
                        [] ch = "quit" -> "wait"
                        [] OTHER -> "returned")
       /\ result' = (CASE ch = "errChan" ->
                            (IF ContainsClosedConn(Head(errChan)) THEN result ELSE Head(errChan))
                       [] ch = "quit" -> result
                       [] OTHER -> ErrKilled)
  /\ UNCHANGED <<proc, delivered, notified, sig, sign, notifyPc, lClosed, acceptPc,
                 accepted, conn, wg>>
  /\ UNCHANGED <<appVars, rspVars>>

\* serve: s.wg.Wait() returns once the counter is zero.
ServeWait ==
  /\ proc = "running"
  /\ servePc = "wait"
  /\ wg = 0
  /\ servePc' = "returned"
  /\ result' = ErrGraceful
  /\ UNCHANGED <<proc, delivered, notified, sig, sign, notifyPc, lClosed, quit, fquit,
                 errChan, acceptPc, accepted, conn, wg, keepAlive>>
  /\ UNCHANGED <<appVars, rspVars>>


ServerStep ==
  \/ ServeStart
  \/ CloseNotifyNotify
  \/ \E s \in Signals : SendSignal(s)
  \/ CloseNotifyRecv
  \/ CloseNotifySwitch
  \/ CloseNotifySend
  \/ \E c \in Conns : Accept(c)
  \/ AcceptError
  \/ HookNew
  \/ \E c \in Conns : ConnTransition(c)
  \/ ServeSelect
  \/ ServeWait

\* =====================================================================
\* facade (Cherry, Group, Context)
\* =====================================================================

\* The prefixes passed to Group and the routes passed to Get/Post/...
GroupPrefixes == {<<"/", "a">>}
RoutePaths == {<<"/">>}
\* The same for RouteSpec: prefixes and routes with and without a leading or a
\* trailing slash.
MorePrefixes == {<<"/", "a">>, <<"/", "b", "/">>, <<"c">>}
MoreRoutes == {<<"/">>, <<"x", "/">>}

\* The terminal handler of a route, and the zero value of a slot of a backing
\* array. The n-th handler passed to the Use of Cherry i is HandlerId(i, n).
Terminal == 0
NilHandler == 0 - 1
HandlerId(i, n) == i * 100 + n

\* Addresses of backing arrays: an array is named by the Cherry whose Use
\* allocated it, that Cherry's Resets so far, and its capacity (a Cherry's
\* capacities only grow between two Resets, so no two arrays share a name).
NilPtr == [by |-> 0, gen |-> 0, cap |-> 0]

\* A nil slice.
NilSlice == [ptr |-> NilPtr, len |-> 0, cap |-> 0]

\* The elements of a slice, read through its header.
Elems(h, sl) == IF sl.len = 0 THEN <<>> ELSE SubSeq(h[sl.ptr], 1, sl.len)

\* The middleware list of a Cherry as a request would range over it.
List(i) == Elems(heap, app[i].middleware)

\* The runtime's size classes, in 8-byte words (a Handler is one word): the
\* capacity an allocation of n words really gets.
RoundUpSize(n) ==
  CASE n <= 4 -> n
    [] n <= 6 -> 6
    [] n <= 8 -> 8
    [] n <= 10 -> 10
    [] n <= 12 -> 12
    [] n <= 14 -> 14
    [] OTHER -> 16

\* The capacity growslice gives a slice of capacity oldCap that must hold newLen
\* elements (below the 256-element threshold: double, or newLen if that is more).
GrowCap(oldCap, newLen) ==
  RoundUpSize(IF newLen > 2 * oldCap THEN newLen ELSE 2 * oldCap)

\* append(sl, hs...) with `at` the address a new array would get: the new
\* header and the new heap. Within capacity the elements are written in place,
\* into the array the header points to; beyond it a new array is allocated and
\* the old elements are copied.
GoAppend(h, sl, hs, at) ==
  LET newLen == sl.len + Len(hs) IN
  IF newLen <= sl.cap
    THEN [slice |-> [sl EXCEPT !.len = newLen],
          heap |-> [h EXCEPT ![sl.ptr] =
                      [k \in 1..sl.cap |->
                         IF k > sl.len /\ k <= newLen THEN hs[k - sl.len] ELSE @[k]]]]
    ELSE LET newCap == GrowCap(sl.cap, newLen)
             ptr == [at EXCEPT !.cap = newCap]
             arr == [k \in 1..newCap |->
                       IF k <= sl.len THEN h[sl.ptr][k]
                       ELSE IF k <= newLen THEN hs[k - sl.len] ELSE NilHandler]
         IN [slice |-> [ptr |-> ptr, len |-> newLen, cap |-> newCap],
             heap |-> [a \in DOMAIN h \cup {ptr} |-> IF a = ptr THEN arr ELSE h[a]]]

\* The garbage collector: arrays no slice header points to are gone.
Collect(h, a, rq) ==
  LET live == {a[i].middleware.ptr : i \in 1..Len(a)} \cup {rq[k].range.ptr : k \in 1..Len(rq)}
  IN [x \in DOMAIN h \cap live |-> h[x]]

\* path.Clean on a path of "/" and letters: runs of slashes collapse, a trailing
\* slash goes unless the path is the root, the empty path is ".".
RECURSIVE Collapse(_)
Collapse(p) ==
  IF Len(p) <= 1 THEN p
  ELSE IF p[1] = "/" /\ p[2] = "/" THEN Collapse(Tail(p))
  ELSE <<p[1]>> \o Collapse(Tail(p))

Clean(p) ==
  LET c == Collapse(p) IN
  IF c = <<>> THEN <<".">>
  ELSE IF Len(c) > 1 /\ c[Len(c)] = "/" THEN SubSeq(c, 1, Len(c) - 1)
  ELSE c

\* path.Join(prefix, route): empty elements are ignored, the rest are joined
\* with a slash and cleaned.
PathJoin(prefix, route) ==
  IF prefix = <<>> /\ route = <<>> THEN <<>>
  ELSE IF prefix = <<>> THEN Clean(route)
  ELSE IF route = <<>> THEN Clean(prefix)
  ELSE Clean(prefix \o <<"/">> \o route)

\* A context.Context: where its chain of parents ends ("nil" for the nil
\* interface value, else context.Background()) and the key/value pairs that were
\* attached on the way, oldest first.
NilContext == [root |-> "nil", vals |-> <<>>]
Background == [root |-> "Background", vals |-> <<>>]

\* context.WithValue(ctx, key, val): a new context over ctx; ctx is not changed.
WithValue(ctx, key, val) == [ctx EXCEPT !.vals = Append(@, [key |-> key, val |-> val])]

\* ctx.Value(key): the value attached last under key, "nil" if there is none.
RECURSIVE ValueOldest(_, _)
ValueOldest(ctx, key) ==
  IF ctx.vals = <<>> THEN "nil"
  ELSE IF Head(ctx.vals).key = key THEN Head(ctx.vals).val
  ELSE ValueOldest([ctx EXCEPT !.vals = Tail(@)], key)

RECURSIVE Value(_, _)
Value(ctx, key) ==
  LET n == Len(ctx.vals) IN
  IF n = 0 THEN "nil"
  ELSE IF ctx.vals[n].key = key THEN ctx.vals[n].val
  ELSE Value([ctx EXCEPT !.vals = SubSeq(@, 1, n - 1)], key)

\* The key the handlers of the model use, the value the handler at position
\* pos of a chain attaches under it (the middleware of the tests attach "m1",
\* then "m2"), and the contexts passed to BindContext.
Key == "a"
CarriedValue(pos) ==
  CASE pos = 1 -> "m1"
    [] pos = 2 -> "m2"
    [] pos = 3 -> "m3"
    [] OTHER -> "m4"
BoundContexts == {WithValue(Background, Key, "bound1"), WithValue(Background, Key, "bound2")}

\* The error handlers passed to SetErrorHandler.
ErrorHandlers == {"custom"}

\* New()
InitApp ==
  /\ app = <<[ErrorHandler |-> "errorHandler", HasAccessLog |-> FALSE,
              middleware |-> NilSlice, prefix |-> <<>>, context |-> NilContext]>>
  /\ heap = [a \in {} |-> <<>>]
  /\ hist = <<[parent |-> 0, inherited |-> <<>>, used |-> <<>>, passed |-> 0, resets |-> 0,
               given |-> <<>>, bound |-> NilContext]>>
  /\ routes = {}
  /\ reqs = <<>>

Apps == 1..Len(app)
Groups == 2..Len(app)

\* Setup calls are made between requests (a call concurrent with a dispatch is
\* a data race on the Cherry).
Quiet == reqs = <<>>

RECURSIVE SumOver(_, _)
SumOver(f, k) == IF k = 0 THEN 0 ELSE f[k] + SumOver(f, k - 1)

TotalPassed == SumOver([i \in 1..Len(hist) |-> hist[i].passed], Len(hist))
TotalResets == SumOver([i \in 1..Len(hist) |-> hist[i].resets], Len(hist))

\* The bounds a specification explores the facade within.
Limits == [handlers |-> MaxHandlers, apps |-> MaxApps, resets |-> MaxResets,
           inflight |-> MaxInFlight]
DeepLimits == [handlers |-> DeepHandlers, apps |-> DeepApps, resets |-> DeepResets,
               inflight |-> DeepInFlight]
CtxLimits == [handlers |-> CtxHandlers, apps |-> 1, resets |-> 0,
              inflight |-> CtxInFlight]
RouteLimits == [handlers |-> 0, apps |-> RouteApps, resets |-> 0,
                inflight |-> RouteInFlight]
BindLimits == [handlers |-> 0, apps |-> BindApps, resets |-> 0,
               inflight |-> BindInFlight]
RawLimits == [handlers |-> RawHandlers, apps |-> RawApps, resets |-> 0,
              inflight |-> RawInFlight]
LateLimits == [handlers |-> LateHandlers, apps |-> LateApps, resets |-> 0,
               inflight |-> LateInFlight]

\* c.Use(handlers...) with n handlers not passed before.
Use(i, n, b) ==
  /\ Quiet
  /\ TotalPassed + n <= b.handlers
  /\ LET hs == [k \in 1..n |-> HandlerId(i, hist[i].passed + k)]
         r == GoAppend(heap, app[i].middleware, hs, [by |-> i, gen |-> hist[i].resets, cap |-> 0])
         app2 == [app EXCEPT ![i].middleware = r.slice]
     IN /\ app' = app2
        /\ heap' = Collect(r.heap, app2, reqs)
        /\ hist' = [hist EXCEPT ![i].used = @ \o hs, ![i].passed = @ + n]
  /\ UNCHANGED <<routes, reqs>>
  /\ UNCHANGED <<srvVars, rspVars>>

\* The Cherry of the Group c.Group(prefix) returns: a copy of *c (the slice
\* header included) with the prefix extended.
GroupOfOwnPrefix(c, prefix) == [c EXCEPT !.prefix = prefix]

GroupOfNoContext(c, prefix) == [c EXCEPT !.prefix = @ \o prefix, !.context = NilContext]

GroupOf(c, prefix) == [c EXCEPT !.prefix = @ \o prefix]

\* c.Group(prefix)
Group(i, prefix, b) ==
  /\ Quiet
  /\ Len(app) < b.apps
  /\ app' = Append(app, GroupOf(app[i], prefix))
  /\ hist' = Append(hist, [parent |-> i, inherited |-> List(i), used |-> <<>>,
                            passed |-> 0, resets |-> 0,
                            given |-> prefix, bound |-> hist[i].bound])
  /\ UNCHANGED <<heap, routes, reqs>>
  /\ UNCHANGED <<srvVars, rspVars>>

\* The Cherry of a Group after g.Reset().
ResetOf(c) == [c EXCEPT !.middleware = NilSlice]

\* g.Reset() (a method of Group only)
Reset(g, b) ==
  /\ Quiet
  /\ g \in Groups
  /\ TotalResets < b.resets
  /\ app' = [app EXCEPT ![g] = ResetOf(@)]
  /\ heap' = Collect(heap, app', reqs)
  /\ hist' = [hist EXCEPT ![g] = [@ EXCEPT !.inherited = <<>>, !.used = <<>>, !.resets = @ + 1]]
  /\ UNCHANGED <<routes, reqs>>
  /\ UNCHANGED <<srvVars, rspVars>>

\* c.Get(route, h) and the other methods: Cherry.add registers, under the joined
\* path, the closure makeHttpRouterHandle(h) builds over c. The router refuses a
\* path registered twice and a path that does not begin with a slash.
add(i, route) ==
  /\ Quiet
  /\ LET path == PathJoin(app[i].prefix, route) IN
       /\ \A r \in routes : r.path # path
       /\ path # <<>> /\ path[1] = "/"
       /\ routes' = routes \cup {[path |-> path, app |-> i, route |-> route, raw |-> FALSE]}
  /\ UNCHANGED <<app, heap, hist, reqs>>
  /\ UNCHANGED <<srvVars, rspVars>>

\* The slice `range c.middleware` iterates over in a request that matched route
\* r of Cherry c: the closure holds c, not a copy of its list, and evaluates
\* c.middleware when the request comes in.
ChainAsCreated(c, r) == [c.middleware EXCEPT !.len = Len(hist[r.app].inherited)]

ChainOf(c, r) == c.middleware

\* The handle of makeHttpRouterHandle, entered for a request that matched route
\* r: c.context is defaulted, the Context is built, and `range c.middleware`
\* evaluates the slice header.
Dispatch(r, b) ==
  /\ ~r.raw
  /\ Len(reqs) < b.inflight
  /\ app' = [app EXCEPT ![r.app].context = IF @ = NilContext THEN Background ELSE @]
  /\ reqs' = Append(reqs, [app |-> r.app, path |-> r.path, range |-> ChainOf(app[r.app], r),
                           i |-> 0, pc |-> "chain", trace |-> <<>>, errs |-> <<>>,
                           ehCalls |-> <<>>,
                           base |-> app'[r.app].context, ctx |-> app'[r.app].context,
                           own |-> <<>>, seen |-> <<>>])
  /\ UNCHANGED <<heap, hist, routes>>
  /\ UNCHANGED <<srvVars, rspVars>>

\* The handler the closure calls next for request q: the middleware in the
\* order of the slice, then the route's handler.
NextHandlerLastFirst(h, q) ==
  IF q.i < q.range.len THEN h[q.range.ptr][q.range.len - q.i] ELSE Terminal

NextHandler(h, q) ==
  IF q.i < q.range.len THEN h[q.range.ptr][q.i + 1] ELSE Terminal

\* The request after handler `id` ran and returned `ret` ("nil" or "error"): an
\* error goes to c.ErrorHandler and the closure returns; after the route's
\* handler the closure returns too.
AfterHandlerGoesOn(q, id, ret, eh) ==
  LET ran == [q EXCEPT !.trace = Append(@, id)] IN
  IF ret = "error"
    THEN [ran EXCEPT !.errs = Append(@, id),
                     !.ehCalls = Append(@, [eh |-> eh, err |-> id]),
                     !.i = @ + 1,
                     !.pc = IF id = Terminal THEN "done" ELSE "chain"]
    ELSE IF id = Terminal THEN [ran EXCEPT !.pc = "done"]
    ELSE [ran EXCEPT !.i = @ + 1]

AfterHandler(q, id, ret, eh) ==
  LET ran == [q EXCEPT !.trace = Append(@, id)] IN
  IF ret = "error"
    THEN [ran EXCEPT !.errs = Append(@, id),
                     !.ehCalls = Append(@, [eh |-> eh, err |-> id]),
                     !.pc = "done"]
    ELSE IF id = Terminal THEN [ran EXCEPT !.pc = "done"]
    ELSE [ran EXCEPT !.i = @ + 1]

\* A handler's `ctx.Context = context.WithValue(ctx.Context, key, val)`: the
\* Context of request q afterwards. `own` keeps what the request's handlers
\* attached, each with the position in the chain of the handler that did.
SetValue(q, key, val) ==
  [q EXCEPT !.ctx = WithValue(@, key, val),
            !.own = Append(@, [pos |-> q.i + 1, val |-> val])]

\* The handler of request q that is running has attached no value yet.
NotAttached(q) == \A n \in 1..Len(q.own) : q.own[n].pos # q.i + 1

\* The handler of request k that is running attaches its value (once).
AttachValueShared(k) ==
  /\ k \in 1..Len(reqs)
  /\ reqs[k].pc = "chain"
  /\ NotAttached(reqs[k])
  /\ reqs' = [reqs EXCEPT ![k] = SetValue(@, Key, CarriedValue(@.i + 1))]
  /\ app' = [app EXCEPT ![reqs[k].app].context = WithValue(@, Key, CarriedValue(reqs[k].i + 1))]
  /\ UNCHANGED <<heap, hist, routes>>
  /\ UNCHANGED <<srvVars, rspVars>>

AttachValue(k) ==
  /\ k \in 1..Len(reqs)
  /\ reqs[k].pc = "chain"
  /\ NotAttached(reqs[k])
  /\ reqs' = [reqs EXCEPT ![k] = SetValue(@, Key, CarriedValue(@.i + 1))]
  /\ UNCHANGED <<app, heap, hist, routes>>
  /\ UNCHANGED <<srvVars, rspVars>>

\* One iteration of the closure's loop, or its call of the route's handler. The
\* handler reads ctx.Context.Value(Key) before it returns: `seen` keeps what each
\* handler read.
RunHandler(k, ret) ==
  /\ k \in 1..Len(reqs)
  /\ reqs[k].pc = "chain"
  /\ reqs' = [reqs EXCEPT ![k] =
                [AfterHandler(@, NextHandler(heap, @), ret, app[@.app].ErrorHandler)
                   EXCEPT !.seen = Append(@, Value(reqs[k].ctx, Key))]]
  /\ UNCHANGED <<app, heap, hist, routes>>
  /\ UNCHANGED <<srvVars, rspVars>>

\* c.BindContext(ctx)
BindContext(i, ctx) ==
  /\ Quiet
  /\ app[i].context # ctx
  /\ app' = [app EXCEPT ![i].context = ctx]
  /\ hist' = [hist EXCEPT ![i].bound = ctx]
  /\ UNCHANGED <<heap, routes, reqs>>
  /\ UNCHANGED <<srvVars, rspVars>>

\* c.SetErrorHandler(h)
SetErrorHandler(i, h) ==
  /\ Quiet
  /\ app[i].ErrorHandler # h
  /\ app' = [app EXCEPT ![i].ErrorHandler = h]
  /\ UNCHANGED <<heap, hist, routes, reqs>>
  /\ UNCHANGED <<srvVars, rspVars>>

\* The closure has returned: the request is over.
Finish(k) ==
  /\ k \in 1..Len(reqs)
  /\ reqs[k].pc = "done"
  /\ reqs' = [j \in 1..(Len(reqs) - 1) |-> IF j < k THEN reqs[j] ELSE reqs[j + 1]]
  /\ UNCHANGED <<app, heap, hist, routes>>
  /\ UNCHANGED <<srvVars, rspVars>>

\* The paths passed to Handle, and the http.Handler passed with them.
RawPaths == {<<"/">>, <<"/", "r">>}
RawHandler == 0 - 2

\* The path c.Handle(method, path, h) registers h under.
RawPathJoined(c, path) == PathJoin(c.prefix, path)

RawPath(c, path) == path

\* c.Handle(method, path, h): the router (one for an application and all its
\* Groups) registers h itself, behind httprouter's adapter.
Handle(i, path) ==
  /\ Quiet
  /\ LET p == RawPath(app[i], path) IN
       /\ \A r \in routes : r.path # p
       /\ p # <<>> /\ p[1] = "/"
       /\ routes' = routes \cup {[path |-> p, app |-> i, route |-> path, raw |-> TRUE]}
  /\ UNCHANGED <<app, heap, hist, reqs>>
  /\ UNCHANGED <<srvVars, rspVars>>

\* The router calls the adapter of an http.Handler for a request that matched
\* route r: no closure of the Cherry is entered and no Context is built.
DispatchRaw(r, b) ==
  /\ r.raw
  /\ Len(reqs) < b.inflight
  /\ reqs' = Append(reqs, [app |-> r.app, path |-> r.path, range |-> NilSlice,
                           i |-> 0, pc |-> "raw", trace |-> <<>>, errs |-> <<>>,
                           ehCalls |-> <<>>, base |-> NilContext, ctx |-> NilContext,
                           own |-> <<>>, seen |-> <<>>])
  /\ UNCHANGED <<app, heap, hist, routes>>
  /\ UNCHANGED <<srvVars, rspVars>>

\* The adapter's h.ServeHTTP(w, req): it returns nothing.
RunRaw(k) ==
  /\ k \in 1..Len(reqs)
  /\ reqs[k].pc = "raw"
  /\ reqs' = [reqs EXCEPT ![k] = [@ EXCEPT !.trace = Append(@, RawHandler), !.pc = "done"]]
  /\ UNCHANGED <<app, heap, hist, routes>>
  /\ UNCHANGED <<srvVars, rspVars>>

FacadeStep(b) ==
  \/ \E i \in Apps, n \in 1..2 : Use(i, n, b)
  \/ \E i \in Apps, p \in GroupPrefixes : Group(i, p, b)
  \/ \E g \in Groups : Reset(g, b)
  \/ \E i \in Apps, p \in RoutePaths : add(i, p)
  \/ \E r \in routes : Dispatch(r, b)
  \/ \E k \in 1..b.inflight, ret \in {"nil", "error"} : RunHandler(k, ret)
  \/ \E k \in 1..b.inflight : Finish(k)

\* =====================================================================
\* one request's response (Cherry.ServeHTTP, responseLogger, Context's helpers)
\* =====================================================================

StatusOK == 200
StatusInternalServerError == 500
StatusMultipleChoices == 300
StatusTemporaryRedirect == 307

\* The status codes the handlers of the model pass to WriteHeader, JSON and
\* Text, and the codes they pass to Redirect (both ends of the valid range, its
\* neighbours, and 200).
HandlerCodes == {StatusOK, 404}
RedirectCodes == {StatusOK, StatusMultipleChoices - 1, StatusMultipleChoices, 301,
                  StatusTemporaryRedirect, StatusTemporaryRedirect + 1}

\* Errors, by their message.
NoError == "nil"
ErrInvalidRedirect == "invalid redirect code"
ErrJSONEncode == "json: unsupported type"
ErrHandler == "handler failed"

\* The number of bytes of each thing the model writes to a body.
ChunkSize(p) ==
  CASE p = "json" -> 3
    [] p = "text" -> 2
    [] p = "redirect" -> 4
    [] OTHER -> 1

RECURSIVE BodySize(_)
BodySize(body) == IF body = <<>> THEN 0 ELSE ChunkSize(Head(body)) + BodySize(Tail(body))

\* The response writer of net/http as the server hands it to ServeHTTP: nothing
\* sent yet.
NewResponse == [wroteHeader |-> FALSE, status |-> 0, header |-> {}, body |-> <<>>]

\* A responseLogger: its zero value, and none.
NoLogger == [on |-> FALSE, status |-> 0, size |-> 0]
NewLogger == [on |-> TRUE, status |-> 0, size |-> 0]

\* The writer the chain sees: the server's response, and the logger in front of
\* it if ServeHTTP made one.
Writer(w, l) == [w |-> w, l |-> l]

\* net/http's WriteHeader on the server's response: the first call sends the
\* status line; a later one is logged as superfluous and changes nothing.
SendHeader(w, code) ==
  IF w.wroteHeader THEN w ELSE [w EXCEPT !.wroteHeader = TRUE, !.status = code]

\* net/http's Write on the server's response: sends the header with 200 if none
\* was sent, then the bytes.
SendBody(w, p) == [SendHeader(w, StatusOK) EXCEPT !.body = Append(@, p)]

\* rw.Header().Set(name, ...) through the writer the chain sees (the logger's
\* Header returns the wrapped writer's). Headers set after the status line was
\* sent do not reach the client.
HeaderSet(x, name) ==
  IF x.w.wroteHeader THEN x ELSE [x EXCEPT !.w.header = @ \cup {name}]

\* rw.WriteHeader(code) through the writer the chain sees: responseLogger's
\* WriteHeader passes the call on and records the code.
WriteHeader(x, code) ==
  IF x.l.on
    THEN [w |-> SendHeader(x.w, code), l |-> [x.l EXCEPT !.status = code]]
    ELSE [x EXCEPT !.w = SendHeader(@, code)]

\* rw.Write(p) through the writer the chain sees: responseLogger's Write records
\* 200 if it has no status yet, passes the call on and adds the bytes written.
Write(x, p) ==
  IF x.l.on
    THEN [w |-> SendBody(x.w, p),
          l |-> [x.l EXCEPT !.status = IF @ = 0 THEN StatusOK ELSE @,
                            !.size = @ + ChunkSize(p)]]
    ELSE [x EXCEPT !.w = SendBody(@, p)]

\* ctx.JSON(code, v): the writer afterwards and the error returned. The encoder
\* marshals v before it writes, so a value it cannot encode writes no body.
JSON(x, code, encodable) ==
  LET x1 == WriteHeader(HeaderSet(x, "Content-Type"), code) IN
  IF encodable THEN [x |-> Write(x1, "json"), err |-> NoError]
  ELSE [x |-> x1, err |-> ErrJSONEncode]

\* ctx.Text(code, text)
Text(x, code) ==
  [x |-> Write(WriteHeader(HeaderSet(x, "Content-Type"), code), "text"), err |-> NoError]

\* http.Redirect(w, r, url, code): Location, the status line, and for GET a
\* short HTML body.
HttpRedirect(x, method, code) ==
  LET x1 == WriteHeader(HeaderSet(x, "Location"), code) IN
  IF method = "GET" THEN Write(x1, "redirect") ELSE x1

\* ctx.Redirect(url, code)
RedirectAnyCode(x, method, code) ==
  [x |-> HttpRedirect(x, method, code), err |-> NoError]

Redirect(x, method, code) ==
  IF code < StatusMultipleChoices \/ code > StatusTemporaryRedirect
    THEN [x |-> x, err |-> ErrInvalidRedirect]
    ELSE [x |-> HttpRedirect(x, method, code), err |-> NoError]

\* http.Error(w, msg, code): the status line, then the message as the body.
HttpError(x, msg, code) ==
  Write(WriteHeader(HeaderSet(x, "Content-Type"), code), msg)

\* The default error handler: http.Error(ctx.Response(), err.Error(), 500). A
\* handler set with SetErrorHandler is taken to write nothing.
errorHandler(x, eh, err) ==
  IF eh = "errorHandler" THEN HttpError(x, err, StatusInternalServerError) ELSE x

\* What the router does with a request that matches no route, or a route of
\* another method: http.NotFound, or http.Error with 405.
RouterMiss(x, kind) ==
  IF kind = "notfound" THEN HttpError(x, "404 page not found", 404)
  ELSE HttpError(x, "Method Not Allowed", 405)

InitRsp ==
  /\ call = [pc |-> "idle", kind |-> "", method |-> "", ops |-> 0, err |-> NoError,
             last |-> [op |-> "", code |-> 0, err |-> NoError,
                       before |-> NewResponse, after |-> NewResponse]]
  /\ rw = NewResponse
  /\ logger = NoLogger
  /\ out = <<>>

\* app.HasAccessLog = true, set before serving.
EnableAccessLog ==
  /\ call.pc = "idle"
  /\ ~app[1].HasAccessLog
  /\ app' = [app EXCEPT ![1].HasAccessLog = TRUE]
  /\ UNCHANGED <<heap, hist, routes, reqs>>
  /\ UNCHANGED <<srvVars, rspVars>>

\* ServeHTTP, up to the chain of the matched route: the Server header, the
\* logger if access logging is on, and the router's own answer if no route
\* matched.
ServeHTTPBegin(kind, method) ==
  /\ call.pc = "idle"
  /\ LET l == IF app[1].HasAccessLog THEN NewLogger ELSE NoLogger
         x0 == HeaderSet(Writer(rw, l), "Server")
         x == IF kind = "matched" THEN x0 ELSE RouterMiss(x0, kind)
     IN /\ rw' = x.w
        /\ logger' = x.l
        /\ call' = [call EXCEPT !.pc = IF kind = "matched" THEN "chain" ELSE "served",
                                !.kind = kind, !.method = method]
  /\ UNCHANGED out
  /\ UNCHANGED <<srvVars, appVars>>

\* The chain took x to r.x with a call of `op` that returned r.err.
Called(op, code, r) ==
  /\ rw' = r.x.w
  /\ logger' = r.x.l
  /\ call' = [call EXCEPT !.ops = @ + 1,
                          !.last = [op |-> op, code |-> code, err |-> r.err,
                                    before |-> rw, after |-> r.x.w]]
  /\ UNCHANGED out
  /\ UNCHANGED <<srvVars, appVars>>

\* A middleware or the route's handler calls ctx.Response().WriteHeader(code).
ChainWriteHeader(code) ==
  /\ call.pc = "chain"
  /\ call.ops < MaxWrites
  /\ Called("WriteHeader", code, [x |-> WriteHeader(Writer(rw, logger), code), err |-> NoError])

\* ... ctx.Response().Write(p)
ChainWrite ==
  /\ call.pc = "chain"
  /\ call.ops < MaxWrites
  /\ Called("Write", 0, [x |-> Write(Writer(rw, logger), "data"), err |-> NoError])

\* ... ctx.JSON(code, v)
ChainJSON(code, encodable) ==
  /\ call.pc = "chain"
  /\ call.ops < MaxWrites
  /\ Called("JSON", code, JSON(Writer(rw, logger), code, encodable))

\* ... ctx.Text(code, text)
ChainText(code) ==
  /\ call.pc = "chain"
  /\ call.ops < MaxWrites
  /\ Called("Text", code, Text(Writer(rw, logger), code))

\* ... ctx.Redirect(url, code)
ChainRedirect(code) ==
  /\ call.pc = "chain"
  /\ call.ops < MaxWrites
  /\ Called("Redirect", code, Redirect(Writer(rw, logger), call.method, code))

\* The chain ends: the route's handler returned nil, or a middleware or the
\* route's handler returned an error (its own, or the one the helper it called
\* last returned) and the closure passed it to c.ErrorHandler.
ChainReturns(err) ==
  /\ call.pc = "chain"
  /\ err \in {NoError, ErrHandler, call.last.err}
  /\ LET x == IF err = NoError THEN Writer(rw, logger)
              ELSE errorHandler(Writer(rw, logger), app[1].ErrorHandler, err)
     IN /\ rw' = x.w
        /\ logger' = x.l
  /\ call' = [call EXCEPT !.pc = "served", !.err = err]
  /\ UNCHANGED out
  /\ UNCHANGED <<srvVars, appVars>>

\* ServeHTTP after the router returned: writeLog with the logger's status and
\* size if there is a logger. Then the server finishes the response: a handler
\* that sent no status line gets 200.
ServeHTTPEnd ==
  /\ call.pc = "served"
  /\ out' = IF logger.on THEN Append(out, [status |-> logger.status, size |-> logger.size])
            ELSE out
  /\ rw' = SendHeader(rw, StatusOK)
  /\ call' = [call EXCEPT !.pc = "done"]
  /\ UNCHANGED logger
  /\ UNCHANGED <<srvVars, appVars>>

Errors == {NoError, ErrHandler, ErrJSONEncode, ErrInvalidRedirect}

RspNext ==
  \/ EnableAccessLog
  \/ \E kind \in {"matched", "notfound", "notallowed"}, m \in {"GET", "POST"} :
       ServeHTTPBegin(kind, m)
  \/ \E code \in HandlerCodes : ChainWriteHeader(code)
  \/ ChainWrite
  \/ \E code \in HandlerCodes, enc \in BOOLEAN : ChainJSON(code, enc)
  \/ \E code \in HandlerCodes : ChainText(code)
  \/ \E code \in RedirectCodes : ChainRedirect(code)
  \/ \E err \in Errors : ChainReturns(err)
  \/ ServeHTTPEnd

Init == InitServer /\ InitApp /\ InitRsp

\* The facade, with no server started.
Next == FacadeStep(Limits)

Spec == Init /\ [][Next]_vars

\* The facade within the deeper bounds.
DeepNext == FacadeStep(DeepLimits)

DeepSpec == Init /\ [][DeepNext]_vars

\* The server, serving an application that is not being changed.
ServeNext == ServerStep

ServeSpec == Init /\ [][ServeNext]_vars

\* The server stopping: the process is sent interrupt, quit and terminate
\* signals only, and Accept fails only once the listener is closed. Every
\* goroutine of the server keeps running, and every open connection ends.
StopNext ==
  \/ ServeStart
  \/ CloseNotifyNotify
  \/ \E s \in GracefulSignals : SendSignal(s)
  \/ CloseNotifyRecv
  \/ CloseNotifySwitch
  \/ CloseNotifySend
  \/ \E c \in Conns : Accept(c)
  \/ lClosed /\ AcceptError
  \/ HookNew
  \/ \E c \in Conns : ConnTransition(c)
  \/ ServeSelect
  \/ ServeWait

ConnEnds(c) == ConnTransition(c) /\ conn'[c] \in {"closed", "hijacked"}

StopFairness ==
  /\ WF_vars(CloseNotifyRecv)
  /\ WF_vars(CloseNotifySwitch)
  /\ WF_vars(CloseNotifySend)
  /\ WF_vars(lClosed /\ AcceptError)
  /\ WF_vars(HookNew)
  /\ WF_vars(ServeSelect)
  /\ WF_vars(ServeWait)
  /\ \A c \in Conns : WF_vars(ConnEnds(c))

StopSpec == Init /\ [][StopNext]_vars /\ StopFairness

\* An application with contexts bound to it, serving requests whose handlers
\* attach values to their context.
CtxNext ==
  \/ \E i \in Apps : Use(i, 1, CtxLimits)
  \/ \E i \in Apps, p \in RoutePaths : add(i, p)
  \/ \E i \in Apps, ctx \in BoundContexts : BindContext(i, ctx)
  \/ \E r \in routes : Dispatch(r, CtxLimits)
  \/ \E k \in 1..CtxInFlight : AttachValue(k)
  \/ \E k \in 1..CtxInFlight, ret \in {"nil", "error"} : RunHandler(k, ret)
  \/ \E k \in 1..CtxInFlight : Finish(k)

CtxSpec == Init /\ [][CtxNext]_vars

\* The facade with contexts bound to an application, its groups and their
\* groups.
BindNext ==
  \/ \E i \in Apps, p \in GroupPrefixes : Group(i, p, BindLimits)
  \/ \E i \in Apps, p \in RoutePaths : add(i, p)
  \/ \E i \in Apps, ctx \in BoundContexts : BindContext(i, ctx)
  \/ \E r \in routes : Dispatch(r, BindLimits)
  \/ \E k \in 1..BindInFlight, ret \in {"nil", "error"} : RunHandler(k, ret)
  \/ \E k \in 1..BindInFlight : Finish(k)

BindSpec == Init /\ [][BindNext]_vars

\* The same, with error handlers set instead.
EhNext ==
  \/ \E i \in Apps, p \in GroupPrefixes : Group(i, p, BindLimits)
  \/ \E i \in Apps, p \in RoutePaths : add(i, p)
  \/ \E i \in Apps, h \in ErrorHandlers : SetErrorHandler(i, h)
  \/ \E r \in routes : Dispatch(r, BindLimits)
  \/ \E k \in 1..BindInFlight, ret \in {"nil", "error"} : RunHandler(k, ret)
  \/ \E k \in 1..BindInFlight : Finish(k)

EhSpec == Init /\ [][EhNext]_vars

\* The facade registering routes on groups and groups of groups.
RouteNext ==
  \/ \E i \in Apps, p \in MorePrefixes : Group(i, p, RouteLimits)
  \/ \E i \in Apps, p \in MoreRoutes : Cardinality(routes) < RouteRoutes /\ add(i, p)
  \/ \E r \in routes : Dispatch(r, RouteLimits)
  \/ \E k \in 1..RouteInFlight, ret \in {"nil", "error"} : RunHandler(k, ret)
  \/ \E k \in 1..RouteInFlight : Finish(k)

RouteSpec == Init /\ [][RouteNext]_vars

\* The facade set up in the order of the README and of TestContext: a Cherry's
\* route is registered first, and every handler passed to its Use is passed
\* after that.
HasRoute(i) == \E r \in routes : r.app = i

LateNext ==
  \/ \E i \in Apps, n \in 1..2 : HasRoute(i) /\ Use(i, n, LateLimits)
  \/ \E i \in Apps, p \in GroupPrefixes : Group(i, p, LateLimits)
  \/ \E i \in Apps, p \in RoutePaths : add(i, p)
  \/ \E r \in routes : Dispatch(r, LateLimits)
  \/ \E k \in 1..LateInFlight, ret \in {"nil", "error"} : RunHandler(k, ret)
  \/ \E k \in 1..LateInFlight : Finish(k)

LateSpec == Init /\ [][LateNext]_vars

\* The facade with http.Handlers registered next to the routes of an
\* application and a Group that have middleware.
RawNext ==
  \/ \E i \in Apps : Use(i, 1, RawLimits)
  \/ \E i \in Apps, p \in GroupPrefixes : Group(i, p, RawLimits)
  \/ \E i \in Apps, p \in RoutePaths : add(i, p)
  \/ \E i \in Apps, p \in RawPaths : Handle(i, p)
  \/ \E r \in routes : Dispatch(r, RawLimits)
  \/ \E r \in routes : DispatchRaw(r, RawLimits)
  \/ \E k \in 1..RawInFlight, ret \in {"nil", "error"} : RunHandler(k, ret)
  \/ \E k \in 1..RawInFlight : RunRaw(k)
  \/ \E k \in 1..RawInFlight : Finish(k)

RawSpec == Init /\ [][RawNext]_vars

\* One request and its response.
RspSpec == Init /\ [][RspNext]_vars

\* =====================================================================
\* properties of the server
\* =====================================================================

\* The connections that are open: accepted and neither closed nor hijacked.
OpenConns == {c \in Conns : conn[c] \in {"new", "active", "idle"} \/ accepted = c}

\* The connections the hook has counted and not yet released.
LiveConns == {c \in Conns : conn[c] \in {"new", "active", "idle"}}

\* C3: whenever serve has returned "server stopped gracefully", no accepted
\* connection is still open, also when a connection was accepted concurrently
\* with the stop signal and its StateNew hook has not run yet.
C3_GracefulMeansDrained ==
  result = ErrGraceful => OpenConns = {}

\* C4: the WaitGroup counter equals the number of connections that entered
\* StateNew and have not entered StateClosed or StateHijacked; it is never
\* negative (so it reads 0 once every opened connection has closed).
C4_CounterMatchesLive ==
  /\ wg = Cardinality(LiveConns)
  /\ wg >= 0
  /\ (\A c \in Conns : conn[c] \in {"none", "closed", "hijacked"}) => wg = 0

\* C4 witness: every connection was opened and has closed or was hijacked (at
\* least one of each), and the counter reads 0.
C4_AllClosed ==
  /\ \A c \in Conns : conn[c] \in {"closed", "hijacked"}
  /\ \E c \in Conns : conn[c] = "hijacked"
  /\ \E c \in Conns : conn[c] = "closed"
  /\ wg = 0

\* C19: once an interrupt, quit or terminate signal was sent to the process with
\* closeNotify subscribed, serve returns "server stopped gracefully", whichever
\* of the listener's error and the quit signal serve's select sees first; the
\* senders on errChan and quit never block.
C19_GracefulStopCompletes ==
  /\ (\E s \in GracefulSignals : <<s, TRUE>> \in delivered) ~> (result = ErrGraceful)
  /\ [](Len(errChan) <= 1 /\ Len(quit) <= 1)

\* C19 witness: serve saw the listener's error first and went on, then saw quit,
\* waited for the connections to end and returned the graceful result.
C19_StoppedAfterError ==
  /\ result = ErrGraceful
  /\ acceptPc = "exited"
  /\ errChan = <<>>
  /\ \E c \in Conns : conn[c] \in {"closed", "hijacked"}
  /\ \A c \in Conns : conn[c] \in {"none", "closed", "hijacked"}

\* serve has taken the quit case of its select.
ObservedQuit == servePc = "wait" \/ result = ErrGraceful

\* C20: the listener is closed whenever quit has been signalled or observed,
\* and once serve has observed quit no Accept returns a connection.
C20_ClosedBeforeQuit ==
  [][/\ (quit' # <<>> \/ ObservedQuit') => lClosed'
     /\ ObservedQuit => ~(acceptPc = "accept" /\ acceptPc' = "hook")
    ]_vars

\* C20 witness: serve has observed quit while the Serve goroutine is still in
\* Accept with a connection to come: the closed listener keeps it from it.
C20_QuitObservedInAccept ==
  /\ ObservedQuit
  /\ lClosed
  /\ acceptPc = "accept"
  /\ \E c \in Conns : conn[c] = "none"
  /\ \E c \in Conns : conn[c] \in {"new", "active", "idle"}

\* C21: when serve's select receives the error Server.Serve ended with, serve
\* returns it at once unless it says the listener was closed (with no stop
\* signal pending, returning it is the only step serve can take); the error of
\* a closed listener it drops and goes on selecting, so it is never serve's
\* result, and serve then returns only through quit or fquit.
C21_ServeErrorHandling ==
  [][/\ (errChan # <<>> /\ errChan' = <<>>) =>
          IF Head(errChan).msg = useClosedConn
            THEN servePc' = "select" /\ result' = NotReturned
            ELSE servePc' = "returned" /\ result' = Head(errChan)
     /\ (servePc = "select" /\ errChan = <<ErrAcceptOther>> /\ quit = <<>> /\ fquit = <<>>
         /\ servePc' # servePc) =>
          (servePc' = "returned" /\ result' = ErrAcceptOther)
     /\ result' # ErrAcceptClosed
     /\ result' # result =>
          \/ result' = ErrGraceful /\ servePc = "wait"
          \/ result' = ErrKilled /\ fquit # <<>>
          \/ result' = ErrAcceptOther /\ errChan = <<ErrAcceptOther>>
    ]_vars

\* C21 witness: the listener was closed, Server.Serve ended with the error of
\* the closed listener, serve received it and is selecting again with quit not
\* sent yet.
C21_ClosedErrorDropped ==
  /\ lClosed
  /\ acceptPc = "exited"
  /\ errChan = <<>>
  /\ servePc = "select"
  /\ result = NotReturned
  /\ quit = <<>>

\* The stop signals fired so far: those waiting on quit and fquit and those
\* serve has taken.
Fired ==
  Len(quit) + Len(fquit) + (IF ObservedQuit THEN 1 ELSE 0) + (IF result = ErrKilled THEN 1 ELSE 0)

\* C22: at most one stop signal is fired in all; closeNotify's send never finds
\* its channel full, also when serve has returned with a serve error and takes
\* nothing any more; and the result serve returned is never changed.
C22_OneStopSignal ==
  [][/\ Fired' <= 1
     /\ notifyPc' = "send" => (quit' = <<>> /\ fquit' = <<>>)
     /\ servePc = "returned" => (result' = result /\ servePc' = "returned")
    ]_vars

\* C22 witness: serve had returned with a serve error; a signal arrived, and
\* closeNotify closed the listener, sent on quit and ended.
C22_SignalAfterFatalError ==
  /\ result = ErrAcceptOther
  /\ servePc = "returned"
  /\ notifyPc = "done"
  /\ quit # <<>>

\* closeNotify has answered a signal with a graceful stop.
Triggered == notifyPc \in {"send", "done"} /\ sign \in GracefulSignals

\* C25: once closeNotify has triggered a graceful stop it takes no signal any
\* more; a signal sent later (short of SIGKILL) changes nothing but the signal
\* channel; and serve leaves its wait only with the counter at zero, returning
\* the graceful result.
C25_OneSignalPerServer ==
  [][/\ Triggered => (sign' = sign /\ notifyPc' \in {"send", "done"} /\ lClosed')
     /\ (Triggered /\ delivered' # delivered /\ proc' = "running") =>
          UNCHANGED <<proc, notified, sign, notifyPc, lClosed, quit, fquit, errChan,
                      acceptPc, accepted, conn, wg, keepAlive, servePc, result>>
     /\ (servePc = "wait" /\ servePc' # "wait") => (wg = 0 /\ result' = ErrGraceful)
     /\ ObservedQuit => result' \in {NotReturned, ErrGraceful}
    ]_vars

\* C25 witness: after SIGTERM triggered the graceful stop, SIGINT and SIGUSR2
\* were sent too; serve is still waiting for a connection that is open.
C25_LaterSignalsIgnored ==
  /\ sign = SIGTERM
  /\ {<<SIGINT, TRUE>>, <<SIGUSR2, TRUE>>} \subseteq delivered
  /\ notifyPc = "done"
  /\ servePc = "wait"
  /\ wg > 0
  /\ proc = "running"

\* C9: when SIGKILL is sent to the process while serve waits in its select and
\* closeNotify waits for a signal, the listener is closed and serve returns
\* "server stopped: process killed" (stated for the state the process ends in).
C9_KillReturnsKilled ==
  (/\ delivered = {<<SIGKILL, TRUE>>}
   /\ proc # "running"
   /\ notifyPc = "recv"
   /\ servePc \in {"select", "returned"}
   /\ result # ErrAcceptOther)
    => (lClosed /\ result = ErrKilled)

\* C10 as stated: a SIGUSR2 sent to the process once closeNotify has subscribed
\* is never silently ignored; it is either still on its way to closeNotify's
\* switch or has aborted the process.
C10_ReloadNeverIgnored ==
  <<SIGUSR2, TRUE>> \in delivered =>
    \/ proc = "panicked"
    \/ \E i \in 1..Len(sig) : sig[i] = SIGUSR2
    \/ (sign = SIGUSR2 /\ notifyPc = "switch")

\* C10 amended: when closeNotify receives SIGUSR2 from its channel, its switch
\* aborts the process with the panic; it closes no listener and sends neither
\* quit nor fquit, so serve returns neither stop result.
C10_ReceivedReloadAborts ==
  sign = SIGUSR2 =>
    /\ notifyPc \in {"switch", "panicked"}
    /\ notifyPc = "panicked" <=> proc = "panicked"
    /\ ~lClosed
    /\ quit = <<>> /\ fquit = <<>>
    /\ result \notin {ErrGraceful, ErrKilled}

\* C10 witness: closeNotify received SIGUSR2 and the process was aborted.
C10_ReloadAborted ==
  sign = SIGUSR2 /\ proc = "panicked" /\ notifyPc = "panicked"

\* =====================================================================
\* properties of the facade
\* =====================================================================

\* The requests being dispatched or just completed.
Requests == {reqs[k] : k \in 1..Len(reqs)}

\* What the middleware list of Cherry i is meant to hold: the list it was
\* created with (none after a Reset), then the handlers passed to its own Use.
Expect(i) == hist[i].inherited \o hist[i].used

\* C1: a request that matched a route of Cherry c runs the middleware of c's
\* list once each, in the order of the list, and the route's handler runs only
\* after every one of them has returned no error.
C1_ChainInOrder ==
  \A q \in Requests :
    LET L == List(q.app) IN
      /\ Len(q.trace) <= Len(L) + 1
      /\ \A j \in 1..Len(q.trace) :
           q.trace[j] = (IF j <= Len(L) THEN L[j] ELSE Terminal)
      /\ (\E j \in 1..Len(q.trace) : q.trace[j] = Terminal) =>
           /\ Len(q.trace) = Len(L) + 1
           /\ \A j \in 1..Len(q.errs) : q.errs[j] = Terminal
      /\ (q.pc = "done" /\ q.errs = <<>>) => q.trace = L \o <<Terminal>>

\* C1 witness: a request of a Cherry with at least three middleware has run all
\* of them and the route's handler.
C1_FullChainRan ==
  \E q \in Requests :
    /\ q.pc = "done"
    /\ q.errs = <<>>
    /\ Len(List(q.app)) >= 3
    /\ Len(q.trace) = Len(List(q.app)) + 1

\* C2: once a handler of the chain has returned an error, nothing else of the
\* chain runs and the error handler has been called exactly once, with that
\* error; while no handler has returned an error it has not been called.
C2_ErrorShortCircuits ==
  \A q \in Requests :
    /\ Len(q.errs) <= 1
    /\ q.errs = <<>> => q.ehCalls = <<>>
    /\ q.errs # <<>> =>
         /\ q.pc = "done"
         /\ q.trace[Len(q.trace)] = q.errs[1]
         /\ q.ehCalls = <<[eh |-> app[q.app].ErrorHandler, err |-> q.errs[1]]>>

\* C2 witness: a middleware that is not the last one returned an error, and the
\* request is over with one call of the error handler.
C2_MiddlewareFailed ==
  \E q \in Requests :
    /\ q.pc = "done"
    /\ q.errs # <<>>
    /\ q.errs[1] # Terminal
    /\ Len(q.trace) < Len(List(q.app))
    /\ Len(q.ehCalls) = 1

\* C5: a request to a route of a Group that was created from a parent with two
\* middleware and was never Reset runs those two, then the handlers passed to
\* the Group's own Use, in that order, then the route's handler.
C5_GroupRunsInherited ==
  \A q \in Requests :
    (/\ q.app \in Groups
     /\ hist[q.app].resets = 0
     /\ Len(hist[q.app].inherited) = 2
     /\ q.pc = "done"
     /\ q.errs = <<>>)
      => q.trace = Expect(q.app) \o <<Terminal>>

\* C6: a Reset of Group g leaves g's list empty and every other list as it
\* was; and a request to a route of a Group that was Reset runs only the
\* handlers passed to that Group's Use since the Reset.
C6_ResetFrame ==
  [][/\ \A g \in Groups :
          hist'[g].resets = hist[g].resets + 1 =>
            /\ List(g)' = <<>>
            /\ \A j \in Apps \ {g} : List(j)' = List(j)
     /\ \A q \in Requests' :
          (hist'[q.app].resets > 0 /\ q.pc = "done" /\ q.errs = <<>>)
            => q.trace = hist'[q.app].used \o <<Terminal>>
    ]_vars

\* C7: the list of a Group that was not Reset is the parent's list as of the
\* Group call followed by the handlers passed to the Group's own Use, whatever
\* was passed to the parent's Use since.
C7_GroupListIsCopy ==
  \A g \in Groups :
    hist[g].resets = 0 => List(g) = Expect(g)

\* C8: the list of a Cherry that has Groups holds exactly what it was created
\* with and the handlers passed to its own Use, and of two Groups of the same
\* parent neither list holds a handler passed to the other's Use.
C8_OwnLists ==
  /\ \A i \in Apps :
       (\E g \in Groups : hist[g].parent = i) => List(i) = Expect(i)
  /\ \A g1, g2 \in Groups :
       (g1 # g2 /\ hist[g1].parent = hist[g2].parent) =>
         \A k \in 1..Len(List(g1)) : List(g1)[k] \notin {hist[g2].used[n] : n \in 1..Len(hist[g2].used)}

\* =====================================================================
\* properties of a request's response
\* =====================================================================

\* C11: with the default error handler, a request whose chain returned an error
\* ends with status 500 and a body that holds the error's message, whatever the
\* chain wrote to the response before it returned the error.
C11_ErrorMeans500 ==
  (call.pc = "done" /\ call.err # NoError /\ app[1].ErrorHandler = "errorHandler") =>
    /\ rw.status = 500
    /\ \E k \in 1..Len(rw.body) : rw.body[k] = call.err

\* C12: Redirect returns an error exactly for the codes outside 300..307; when
\* it does, the response is as it was before the call; otherwise, called on a
\* response that has sent no status line yet, it sends exactly that status with
\* a Location header.
C12_RedirectValidates ==
  call.last.op = "Redirect" =>
    LET c == call.last IN
      /\ (c.err # NoError) <=> (c.code < 300 \/ c.code > 307)
      /\ c.err # NoError => c.after = c.before
      /\ (c.err = NoError /\ ~c.before.wroteHeader) =>
           /\ c.after.wroteHeader
           /\ c.after.status = c.code
           /\ "Location" \in c.after.header

\* C12 witness: Redirect with 301 has sent a 301 with a Location header.
C12_Redirected301 ==
  /\ call.last.op = "Redirect"
  /\ call.last.code = 301
  /\ call.last.err = NoError
  /\ rw.status = 301
  /\ "Location" \in rw.header

\* C13: with access logging on, a request writes one log line, once its chain
\* is over, whose status is the status sent to the client and whose size is the
\* number of body bytes sent, whatever WriteHeader and Write calls the chain
\* made; with access logging off there is no responseLogger and no log line.
C13_LogMatchesResponse ==
  /\ call.pc # "done" => out = <<>>
  /\ call.pc = "done" =>
       IF app[1].HasAccessLog
         THEN /\ Len(out) = 1
              /\ out[1].status = rw.status
              /\ out[1].size = BodySize(rw.body)
         ELSE ~logger.on /\ out = <<>>

\* =====================================================================
\* properties of contexts and error handlers
\* =====================================================================

\* The context a request starts from when `bound` is what was bound.
StartContext(bound) == IF bound = NilContext THEN Background ELSE bound

\* What the handler at position j of request q's chain is meant to read under
\* Key: the value attached last by a handler at a position up to j, else the
\* value of the context the request started from.
Carried(q, j) ==
  LET upTo == {n \in 1..Len(q.own) : q.own[n].pos <= j} IN
  IF upTo = {} THEN Value(q.base, Key)
  ELSE q.own[CHOOSE n \in upTo : \A m \in upTo : m <= n].val

C15_ValuesScopedToRequest ==
  /\ \A q \in Requests :
       /\ q.base = StartContext(hist[q.app].bound)
       /\ q.ctx.root = q.base.root
       /\ q.ctx.vals = q.base.vals \o [n \in 1..Len(q.own) |-> [key |-> Key, val |-> q.own[n].val]]
  /\ \A i \in Apps :
       /\ app[i].context \in {NilContext, Background} \cup BoundContexts
       /\ StartContext(app[i].context) = StartContext(hist[i].bound)

\* C15 witness: two requests of a Cherry with a bound context are in flight,
\* each has attached a value the other has not, and one of them is over.
C15_TwoRequestsAttached ==
  /\ Len(reqs) = 2
  /\ reqs[1].app = reqs[2].app
  /\ reqs[1].base \in BoundContexts
  /\ Len(reqs[1].own) = 1 /\ Len(reqs[2].own) = 1
  /\ reqs[1].own[1].val # reqs[2].own[1].val
  /\ reqs[1].pc = "done"

\* C16: a request starts from the context bound last to the Cherry its route
\* was registered on, as of the dispatch; a Group starts with the context bound
\* to its parent when it was made; and BindContext on one Cherry leaves the
\* context of every other one as it was.
C16_StartsFromBound ==
  [][/\ \A q \in Requests' : q.base = StartContext(hist'[q.app].bound)
     /\ \A i \in Apps :
          hist'[i].bound # hist[i].bound =>
            \A j \in Apps \ {i} : app'[j].context = app[j].context
     /\ Len(app') > Len(app) =>
          StartContext(app'[Len(app')].context) =
            StartContext(app[hist'[Len(app')].parent].context)
    ]_vars

\* C16 witness: a context was bound to the application, two Groups were made
\* from it, another context was bound to the first Group, and a request of the
\* second Group has started from the application's context.
C16_SiblingKeepsParents ==
  /\ Len(app) = 3
  /\ hist[2].parent = 1 /\ hist[3].parent = 1
  /\ app[1].context \in BoundContexts
  /\ app[2].context \in BoundContexts
  /\ app[2].context # app[1].context
  /\ \E q \in Requests : q.app = 3 /\ q.base = app[1].context

\* C17: an error returned in a request of a Group's route is passed to the
\* error handler that is set on the Cherry the Group was made from.
C17_GroupUsesParentsErrorHandler ==
  \A q \in Requests :
    q.app \in Groups =>
      \A n \in 1..Len(q.ehCalls) : q.ehCalls[n].eh = app[hist[q.app].parent].ErrorHandler

\* The prefix of Cherry i as the Group calls that led to it were given it: its
\* parent's, followed by its own.
RECURSIVE GivenPrefix(_)
GivenPrefix(i) == IF hist[i].parent = 0 THEN <<>> ELSE GivenPrefix(hist[i].parent) \o hist[i].given

\* C18: every route in the router's table is registered under the join of its
\* Cherry's prefix (the parent's prefix followed by the prefix given to Group,
\* through every level of Groups) with the route as given, and a request for
\* that path is dispatched to the handle of the Cherry the route was registered
\* on.
C18_RegisteredUnderJoinedPath ==
  /\ \A r \in routes :
       /\ app[r.app].prefix = GivenPrefix(r.app)
       /\ r.path = PathJoin(GivenPrefix(r.app), r.route)
       /\ \A r2 \in routes : r2.path = r.path => r2 = r
  /\ \A q \in Requests :
       \E r \in routes :
         /\ r.path = q.path
         /\ r.app = q.app
         /\ q.path = PathJoin(GivenPrefix(q.app), r.route)

\* C18 witness: a request for /a/b/x has run the handler of a route registered
\* as "x/" on a Group with prefix "/b/" of a Group with prefix "/a".
C18_GroupOfGroupReached ==
  \E q \in Requests :
    /\ q.app = 3
    /\ hist[3].parent = 2 /\ hist[2].parent = 1
    /\ hist[2].given = <<"/", "a">> /\ hist[3].given = <<"/", "b", "/">>
    /\ q.path = <<"/", "a", "/", "b", "/", "x">>
    /\ q.trace = <<Terminal>>

\* C23: a step of a request (its dispatch, a handler of its chain, its end)
\* leaves every Cherry as it was (middleware list, prefix, error handler and
\* bound context) and writes no backing array.
C23_DispatchWritesNoCherry ==
  [][reqs' # reqs => (app' = app /\ heap' = heap)]_vars

\* C24: a request ranges over the middleware list its Cherry has when the
\* request is dispatched, not over the list the Cherry had when the route was
\* registered: a request that ended without an error has run every handler of
\* the list, those passed to Use after the registration included, and then the
\* route's handler.
C24_ChainReadAtDispatch ==
  \A q \in Requests :
    /\ \E r \in routes : r.path = q.path /\ r.app = q.app
    /\ q.range = app[q.app].middleware
    /\ (q.pc = "done" /\ q.errs = <<>>) =>
         /\ Len(q.trace) = Len(hist[q.app].inherited) + Len(hist[q.app].used) + 1
         /\ q.trace = List(q.app) \o <<Terminal>>

\* C24 witness: the route of the application was registered, then handlers
\* were passed to Use in two calls, and a request to the route has run them all
\* and then the route's handler.
C24_LaterMiddlewareRan ==
  \E q \in Requests :
    /\ q.app = 1
    /\ hist[1].passed = 3
    /\ q.pc = "done"
    /\ q.errs = <<>>
    /\ q.trace = hist[1].used \o <<Terminal>>

\* The route registered under path p.
RouteAt(p) == CHOOSE r \in routes : r.path = p

\* C26: an http.Handler registered with Handle on an application or a Group is
\* in the router's table under the path as given, whatever the prefix; a
\* request that matched it runs that handler and no middleware, and the error
\* handler is not called; the requests of the other routes never run it.
C26_RawHandlerBypasses ==
  /\ \A r \in routes : r.raw => r.path = r.route
  /\ \A q \in Requests :
       LET r == RouteAt(q.path) IN
         /\ r \in routes /\ r.app = q.app
         /\ r.raw =>
              /\ Len(q.trace) <= 1
              /\ \A j \in 1..Len(q.trace) : q.trace[j] = RawHandler
              /\ q.errs = <<>>
              /\ q.ehCalls = <<>>
         /\ ~r.raw => \A j \in 1..Len(q.trace) : q.trace[j] # RawHandler

\* C26 witness: a request for /r has run the http.Handler registered with
\* Handle("/r") on a Group with prefix "/a" that has middleware.
C26_RawOnGroupRan ==
  \E q \in Requests :
    /\ q.app = 2
    /\ app[2].prefix = <<"/", "a">>
    /\ List(2) # <<>>
    /\ q.path = <<"/", "r">>
    /\ RouteAt(q.path).raw
    /\ q.pc = "done"
    /\ q.trace = <<RawHandler>>

====
